---- MODULE Spec2Model ----
(***************************************************************************)
(* Model of notebooks/dqn_agent.py: the ReplayBuffer (a deque with a       *)
(* maximum length, random batch sampling) and the Agent (step, act, learn, *)
(* soft_update).                                                           *)
(*                                                                         *)
(* Real numbers are fixed-point integers in units of 1e-7, so that         *)
(* GAMMA = 0.99, TAU = 1e-3 and LR = 5e-4 keep their values.  The integer  *)
(* hyperparameters BUFFER_SIZE, BATCH_SIZE and UPDATE_EVERY are module     *)
(* globals of the program; here they are fixed at construction to any      *)
(* value within the bounds below (the defaults 100000, 64 and 4 are out    *)
(* of a model checker's reach).                                            *)
(***************************************************************************)
EXTENDS Integers, Sequences, FiniteSets, TLC

\* ------------------------------------------------------------------ bounds
MaxUpdateEvery == 2    \* UPDATE_EVERY ranges over 1..MaxUpdateEvery
MaxBatch == 2          \* BATCH_SIZE ranges over 1..MaxBatch
MaxCap == 3            \* BUFFER_SIZE ranges over 1..MaxCap
MaxSteps == 3          \* number of step calls in a run of the Agent
MaxBufBatch == 2       \* batch_size of a ReplayBuffer used on its own
MaxBufCap == 3         \* buffer_size of a ReplayBuffer used on its own
MaxAdds == 5           \* number of add calls on a ReplayBuffer used on its own
MaxLearns == 1         \* number of learn calls on an Agent's learn used on its own
StateSize == 1         \* the Agent's state_size
ActionSize == 2        \* the Agent's action_size

\* --------------------------------------------------- program constants
GammaNum == 99         \* GAMMA = GammaNum / GammaDen
GammaDen == 100
TauNum == 1            \* TAU = TauNum / TauDen
TauDen == 1000
LR == 5000             \* 5e-4 in units of 1e-7
DefaultBufferSize == 100000
DefaultBatchSize == 64
DefaultUpdateEvery == 4

VARIABLES
    UPDATE_EVERY,   \* module global
    BATCH_SIZE,     \* module global
    BUFFER_SIZE,    \* module global
    maxlen,         \* ReplayBuffer.memory.maxlen
    batch_size,     \* ReplayBuffer.batch_size
    memory,         \* ReplayBuffer.memory, oldest record first
    t_step,         \* Agent.t_step
    theta_local,    \* parameters of Agent.qnetwork_local
    theta_target,   \* parameters of Agent.qnetwork_target
    opt_steps,      \* optimizer state: number of optimizer.step() calls
    training,       \* qnetwork_local.training (train mode / eval mode)
    nAdded,         \* history: number of add calls so far
    last            \* history: the last call, its inputs and its outcome

vars == <<UPDATE_EVERY, BATCH_SIZE, BUFFER_SIZE, maxlen, batch_size, memory,
          t_step, theta_local, theta_target, opt_steps, training, nAdded, last>>

agentVars == <<t_step, theta_local, theta_target, opt_steps, training>>
globals == <<UPDATE_EVERY, BATCH_SIZE, BUFFER_SIZE>>

\* ------------------------------------------------------------------ inputs
Actions == 0..(ActionSize - 1)

GoodState(v) == [i \in 1..StateSize |-> v]
BadState == [i \in 1..(StateSize + 1) |-> 0]

\* The transitions a caller passes to step / add: two well-formed ones, one
\* whose state has the wrong length and one whose action is out of range.
Transitions ==
    { [state |-> GoodState(0), action |-> 0, reward |-> 100000,
       next_state |-> GoodState(1), done |-> FALSE],
      [state |-> GoodState(1), action |-> ActionSize - 1, reward |-> 0,
       next_state |-> GoodState(0), done |-> TRUE],
      [state |-> BadState, action |-> 0, reward |-> 0,
       next_state |-> GoodState(0), done |-> FALSE],
      [state |-> GoodState(0), action |-> ActionSize, reward |-> 0,
       next_state |-> GoodState(0), done |-> FALSE] }

NoTransition ==
    [state |-> <<>>, action |-> 0, reward |-> 0, next_state |-> <<>>, done |-> FALSE]

WellFormed(e) ==
    /\ Len(e.state) = StateSize
    /\ Len(e.next_state) = StateSize
    /\ e.action \in Actions

\* ------------------------------------------------------------ ReplayBuffer
\* self.experience(state, action, reward, next_state, done); id is a history
\* tag: the number of the add call that created the record.
Experience(t, id) ==
    [state |-> t.state, action |-> t.action, reward |-> t.reward,
     next_state |-> t.next_state, done |-> t.done, id |-> id]

\* deque(maxlen=n).append(e), with the newest record dropped instead
DequeAppendDropNewest(mem, e, n) ==
    IF Len(mem) < n THEN Append(mem, e) ELSE mem

\* deque(maxlen=n).append(e): when full, the leftmost (oldest) item goes
DequeAppend(mem, e, n) ==
    IF n = 0 THEN mem
    ELSE IF Len(mem) < n THEN Append(mem, e)
    ELSE Append(Tail(mem), e)

\* ReplayBuffer.add that keeps no terminal transition
BufferAddSkipDone(mem, t, id, n) ==
    IF t.done THEN mem ELSE DequeAppend(mem, Experience(t, id), n)

\* ReplayBuffer.add
BufferAdd(mem, t, id, n) == DequeAppend(mem, Experience(t, id), n)

\* the sequences of k distinct positions of a population of n items
InjSeqs(n, k) ==
    {f \in [1..k -> 1..n] : \A i, j \in 1..k : i # j => f[i] # f[j]}

Min(a, b) == IF a <= b THEN a ELSE b

\* random.sample that returns what there is when asked for too much
RandomSampleShort(n, k) == InjSeqs(n, Min(n, k))

\* random.sample(population, k): the possible outcomes, as sequences of
\* positions; none when it raises ValueError (k larger than the population)
RandomSample(n, k) == IF k > n THEN {} ELSE InjSeqs(n, k)

\* np.vstack(rows): rows of the stacked array, each row a sequence
VStackOk(rows) ==
    /\ Len(rows) > 0
    /\ \A i \in 1..Len(rows) : Len(rows[i]) = Len(rows[1])

\* .astype(np.uint8).float() of a bool
BoolToFloat(b) == IF b THEN 1 ELSE 0

NoBatch ==
    [states |-> <<>>, actions |-> <<>>, rewards |-> <<>>,
     next_states |-> <<>>, dones |-> <<>>]

\* the five list comprehensions of sample, each stacked by np.vstack
MakeBatch(exps) ==
    LET k == Len(exps) IN
    [states      |-> [i \in 1..k |-> exps[i].state],
     actions     |-> [i \in 1..k |-> <<exps[i].action>>],
     rewards     |-> [i \in 1..k |-> <<exps[i].reward>>],
     next_states |-> [i \in 1..k |-> exps[i].next_state],
     dones       |-> [i \in 1..k |-> <<BoolToFloat(exps[i].done)>>]]

\* the records random.sample picked, in the order picked
Picked(mem, idx) == [i \in 1..Len(idx) |-> mem[idx[i]]]

\* sample() after random.sample chose the positions idx: the error raised by
\* np.vstack, if any
SampleErr(mem, idx) ==
    LET b == MakeBatch(Picked(mem, idx)) IN
    IF VStackOk(b.states) /\ VStackOk(b.next_states) THEN "none" ELSE "ShapeError"

SampleBatch(mem, idx) ==
    IF SampleErr(mem, idx) = "none" THEN MakeBatch(Picked(mem, idx)) ELSE NoBatch

\* the deque after sample, if sampling removed what it drew
MemoryAfterSampleRemoving(mem, idx) ==
    SelectSeq(mem, LAMBDA e : \A i \in 1..Len(idx) : mem[idx[i]].id # e.id)

\* the deque after sample: random.sample copies, the deque is not touched
MemoryAfterSample(mem, idx) == mem

\* --------------------------------------------------------------- QNetwork
\* model.QNetwork is not part of the source at hand: an estimator with one
\* parameter per action, linear in the first state feature.
InitParams(seed) == [a \in 1..ActionSize |-> seed * a * 20000]

\* forward evaluation fails on a state whose length is not state_size
ForwardOk(s) == Len(s) = StateSize

Forward(theta, s) == [a \in 1..ActionSize |-> theta[a] + (a - 1) * s[1] * 1000]

MaxOf(q) == CHOOSE m \in {q[a] : a \in 1..Len(q)} : \A a \in 1..Len(q) : q[a] <= m

\* np.argmax: the first maximal entry, as an action index
ArgMax(q) ==
    (CHOOSE a \in 1..Len(q) : q[a] = MaxOf(q) /\ \A b \in 1..(a - 1) : q[b] # MaxOf(q)) - 1

\* ------------------------------------------------------------ Agent.learn
Sign(x) == IF x > 0 THEN 1 ELSE IF x < 0 THEN -1 ELSE 0

\* the exception learn raises on the batch b, if any
LearnErr(b) ==
    IF \E i \in 1..Len(b.next_states) : ~ForwardOk(b.next_states[i]) THEN "ShapeError"
    ELSE IF \E i \in 1..Len(b.states) : ~ForwardOk(b.states[i]) THEN "ShapeError"
    ELSE IF \E i \in 1..Len(b.actions) : b.actions[i][1] \notin Actions THEN "IndexError"
    ELSE "none"

\* Q_targets_next = qnetwork_target(next_states).detach().max(1)[0]
QTargetsNext(tht, b) ==
    [i \in 1..Len(b.next_states) |-> MaxOf(Forward(tht, b.next_states[i]))]

\* Q_targets without the (1 - dones) factor
QTargetsNoDoneMask(tht, b, gNum, gDen) ==
    [i \in 1..Len(b.rewards) |->
        gDen * b.rewards[i][1] + gNum * QTargetsNext(tht, b)[i]]

\* Q_targets = rewards + gamma * Q_targets_next * (1 - dones), times gDen
QTargets(tht, b, gNum, gDen) ==
    [i \in 1..Len(b.rewards) |->
        gDen * b.rewards[i][1] + gNum * QTargetsNext(tht, b)[i] * (1 - b.dones[i][1])]

\* Q_expected = qnetwork_local(states).gather(1, actions)
QExpected(thl, b) ==
    [i \in 1..Len(b.states) |-> Forward(thl, b.states[i])[b.actions[i][1] + 1]]

RECURSIVE SumTo(_, _)
SumTo(f, n) == IF n = 0 THEN 0 ELSE f[n] + SumTo(f, n - 1)

\* loss.backward(): the sign of d(mse_loss)/d(theta[a])
GradSign(thl, tht, b, gNum, gDen) ==
    [a \in 1..ActionSize |->
        Sign(SumTo([i \in 1..Len(b.states) |->
                       IF b.actions[i][1] + 1 = a
                       THEN gDen * QExpected(thl, b)[i] - QTargets(tht, b, gNum, gDen)[i]
                       ELSE 0],
                   Len(b.states)))]

\* optimizer.step() of Adam(lr=LR): each parameter moves by lr against the
\* sign of its gradient
OptimizerStep(thl, g) == [a \in 1..ActionSize |-> thl[a] - LR * g[a]]

\* n / d rounded to the nearest integer, halves to even (d > 0)
RoundDiv(n, d) ==
    LET q == n \div d
        r == n % d
    IN IF 2 * r < d THEN q
       ELSE IF 2 * r > d THEN q + 1
       ELSE IF q % 2 = 0 THEN q ELSE q + 1

\* soft_update with the two weights exchanged
SoftUpdateSwapped(thl, tht, tNum, tDen) ==
    [a \in 1..ActionSize |-> RoundDiv(tNum * tht[a] + (tDen - tNum) * thl[a], tDen)]

\* Agent.soft_update: target = tau*local + (1 - tau)*target, per parameter
SoftUpdate(thl, tht, tNum, tDen) ==
    [a \in 1..ActionSize |-> RoundDiv(tNum * thl[a] + (tDen - tNum) * tht[a], tDen)]

\* the local parameters after learn(b, gamma)
LearnLocal(thl, tht, b, gNum, gDen) ==
    OptimizerStep(thl, GradSign(thl, tht, b, gNum, gDen))

\* ------------------------------------------------------------- Agent.step
\* the inner guard of step, left out
EnoughSamplesAlways(n, bs) == TRUE

\* the inner guard of step with >= for >
EnoughSamplesInclusive(n, bs) == n >= bs

\* len(self.memory) > BATCH_SIZE
EnoughSamples(n, bs) == n > bs

\* the counter of step, counting on without wrapping
NextTStepNoWrap(ts, ue) == ts + 1

\* self.t_step = (self.t_step + 1) % UPDATE_EVERY
NextTStep(ts, ue) == (ts + 1) % ue

NoAct == [state |-> <<>>, eps |-> 0]

\* the record of a call: its inputs, whether sample and learn were called,
\* the value returned and the exception raised; for a direct sample call
\* also the positions random.sample chose and the batch returned
Call(op, err, t, sampleCalled, idx, batch, learnInvoked, actIn, ret) ==
    [op |-> op, err |-> err, t |-> t, sampleCalled |-> sampleCalled, idx |-> idx,
     batch |-> batch, learnInvoked |-> learnInvoked, actIn |-> actIn, ret |-> ret]

Step(t) ==
    /\ nAdded < MaxSteps
    /\ LET mem1 == BufferAdd(memory, t, nAdded + 1, maxlen)
           ts1 == NextTStep(t_step, UPDATE_EVERY)
           trigger == ts1 = 0 /\ EnoughSamples(Len(mem1), BATCH_SIZE)
           ch == RandomSample(Len(mem1), batch_size)
       IN /\ t_step' = ts1
          /\ nAdded' = nAdded + 1
          /\ IF ~trigger
             THEN /\ memory' = mem1
                  /\ UNCHANGED <<theta_local, theta_target, opt_steps>>
                  /\ last' = Call("step", "none", t, FALSE, <<>>, NoBatch, FALSE, NoAct, -1)
             ELSE IF ch = {}
             THEN /\ memory' = mem1
                  /\ UNCHANGED <<theta_local, theta_target, opt_steps>>
                  /\ last' = Call("step", "InsufficientData", t, TRUE, <<>>, NoBatch,
                                  FALSE, NoAct, -1)
             ELSE \E idx \in ch :
                  LET serr == SampleErr(mem1, idx)
                      b == SampleBatch(mem1, idx)
                      lerr == IF serr = "none" THEN LearnErr(b) ELSE serr
                      newLocal == LearnLocal(theta_local, theta_target, b, GammaNum, GammaDen)
                  IN /\ memory' = MemoryAfterSample(mem1, idx)
                     /\ IF lerr = "none"
                        THEN /\ theta_local' = newLocal
                             /\ theta_target' = SoftUpdate(newLocal, theta_target, TauNum, TauDen)
                             /\ opt_steps' = opt_steps + 1
                        ELSE UNCHANGED <<theta_local, theta_target, opt_steps>>
                     /\ last' = Call("step", lerr, t, TRUE, <<>>, NoBatch, serr = "none", NoAct, -1)
    /\ UNCHANGED <<globals, maxlen, batch_size, training>>

\* -------------------------------------------------------------- Agent.act
ActStates == {GoodState(0), GoodState(1), BadState}
\* random.random() is in [0, 1) and eps in [0, 1]: here in halves
Draws == 0..1
Epsilons == 0..2

\* random.random() > eps
Greedy(r, eps) == r > eps

\* act, also counting the call in t_step
ActFrameCounting == 
    /\ t_step' = (t_step + 1) % UPDATE_EVERY
    /\ UNCHANGED <<theta_local, theta_target, opt_steps, memory, nAdded>>

\* what act assigns nothing to
ActFrame == UNCHANGED <<theta_local, theta_target, opt_steps, memory, t_step, nAdded>>

Act(state, eps, r, c) ==
    /\ IF ~ForwardOk(state)
       THEN /\ training' = FALSE
            /\ last' = Call("act", "ShapeError", NoTransition, FALSE, <<>>, NoBatch, FALSE,
                            [state |-> state, eps |-> eps], -1)
       ELSE /\ training' = TRUE
            /\ last' = Call("act", "none", NoTransition, FALSE, <<>>, NoBatch, FALSE,
                            [state |-> state, eps |-> eps],
                            IF Greedy(r, eps) THEN ArgMax(Forward(theta_local, state)) ELSE c)
    /\ ActFrame
    /\ UNCHANGED <<globals, maxlen, batch_size>>

\* ------------------------------------------------ direct ReplayBuffer calls
Add(t) ==
    /\ nAdded < MaxAdds
    /\ memory' = BufferAdd(memory, t, nAdded + 1, maxlen)
    /\ nAdded' = nAdded + 1
    /\ last' = Call("add", "none", t, FALSE, <<>>, NoBatch, FALSE, NoAct, -1)
    /\ UNCHANGED <<globals, maxlen, batch_size, agentVars>>

Sample ==
    /\ LET ch == RandomSample(Len(memory), batch_size)
       IN IF ch = {}
          THEN /\ memory' = memory
               /\ last' = Call("sample", "InsufficientData", NoTransition, TRUE, <<>>,
                               NoBatch, FALSE, NoAct, -1)
          ELSE \E idx \in ch :
               /\ memory' = MemoryAfterSample(memory, idx)
               /\ last' = Call("sample", SampleErr(memory, idx), NoTransition, TRUE, idx,
                               SampleBatch(memory, idx), FALSE, NoAct, -1)
    /\ UNCHANGED <<globals, maxlen, batch_size, agentVars, nAdded>>

\* The caller writes v into the array it passed to add as state (or as
\* next_state) of the record now at position i: add stored that very array
\* object in the record, no copy of it.
CallerWrites(i, field, v) ==
    /\ i \in 1..Len(memory)
    /\ IF field = "state"
       THEN /\ Len(memory[i].state) > 0
            /\ memory' = [memory EXCEPT ![i].state = [@ EXCEPT ![1] = v]]
       ELSE /\ Len(memory[i].next_state) > 0
            /\ memory' = [memory EXCEPT ![i].next_state = [@ EXCEPT ![1] = v]]
    /\ last' = Call("write", "none", NoTransition, FALSE, <<>>, NoBatch, FALSE, NoAct, -1)
    /\ UNCHANGED <<globals, maxlen, batch_size, agentVars, nAdded>>

\* ------------------------------------------------------ direct Agent calls
\* agent.learn(experiences, gamma) on a batch of well-formed rows
Learn(b, gNum, gDen) ==
    /\ opt_steps < MaxLearns
    /\ LearnErr(b) = "none"
    /\ LET newLocal == LearnLocal(theta_local, theta_target, b, gNum, gDen)
       IN /\ theta_local' = newLocal
          /\ theta_target' = SoftUpdate(newLocal, theta_target, TauNum, TauDen)
          /\ opt_steps' = opt_steps + 1
          /\ last' = Call("learn", "none", NoTransition, FALSE, <<>>, b, TRUE, NoAct,
                          [gamma |-> <<gNum, gDen>>,
                           Q_targets_next |-> QTargetsNext(theta_target, b),
                           Q_targets |-> QTargets(theta_target, b, gNum, gDen)])
    /\ UNCHANGED <<globals, maxlen, batch_size, memory, t_step, training, nAdded>>

\* agent.soft_update(qnetwork_local, qnetwork_target, tau)
SoftUpdateCall(tNum, tDen) ==
    /\ theta_target' = SoftUpdate(theta_local, theta_target, tNum, tDen)
    /\ last' = Call("soft_update", "none", NoTransition, FALSE, <<>>, NoBatch, FALSE, NoAct,
                    <<tNum, tDen>>)
    /\ UNCHANGED <<globals, maxlen, batch_size, memory, t_step, theta_local, opt_steps,
                   training, nAdded>>

\* ---------------------------------------------------------- specifications
NoCall == Call("init", "none", NoTransition, FALSE, <<>>, NoBatch, FALSE, NoAct, -1)

Seeds == {0}

\* Agent(state_size, action_size, seed)
Init ==
    /\ UPDATE_EVERY \in 1..MaxUpdateEvery
    /\ BATCH_SIZE \in 1..MaxBatch
    /\ BUFFER_SIZE \in 1..MaxCap
    /\ maxlen = BUFFER_SIZE
    /\ batch_size = BATCH_SIZE
    /\ memory = <<>>
    /\ t_step = 0
    /\ \E seed \in Seeds :
          /\ theta_local = InitParams(seed)
          /\ theta_target = InitParams(seed)
    /\ opt_steps = 0
    /\ training = TRUE
    /\ nAdded = 0
    /\ last = NoCall

StepAction == \E t \in Transitions : Step(t)

\* random.random() is drawn only after the forward evaluation, and
\* random.choice only on the exploring branch
ActAction ==
    \E state \in ActStates, eps \in Epsilons :
        \E r \in (IF ForwardOk(state) THEN Draws ELSE {0}) :
            \E c \in (IF ForwardOk(state) /\ ~Greedy(r, eps) THEN Actions ELSE {0}) :
                Act(state, eps, r, c)

Next == StepAction \/ ActAction

Spec == Init /\ [][Next]_vars

\* ReplayBuffer(action_size, buffer_size, batch_size, seed) used on its own
InitBuffer ==
    /\ UPDATE_EVERY = 1
    /\ BATCH_SIZE = 1
    /\ BUFFER_SIZE = 1
    /\ maxlen \in 0..MaxBufCap
    /\ batch_size \in 1..MaxBufBatch
    /\ memory = <<>>
    /\ t_step = 0
    /\ theta_local = InitParams(0)
    /\ theta_target = InitParams(0)
    /\ opt_steps = 0
    /\ training = TRUE
    /\ nAdded = 0
    /\ last = NoCall

AddAction == \E t \in Transitions : Add(t)

SampleAction == Sample

NextBuffer == AddAction \/ SampleAction

SpecBuffer == InitBuffer /\ [][NextBuffer]_vars

\* a ReplayBuffer and a caller that keeps the arrays it passed to add
CallerWritesAction ==
    \E i \in 1..MaxBufCap, field \in {"state", "next_state"}, v \in 0..1 :
        CallerWrites(i, field, v)

NextAlias == AddAction \/ SampleAction \/ CallerWritesAction

SpecAlias == InitBuffer /\ [][NextAlias]_vars

\* Agent.learn called on its own, with any parameters in the two networks, on
\* a batch of one row or of a terminal row followed by a non-terminal one
LearnSeeds == 0..1
LearnRewards == {-50000, 100000}
Gammas == {<<0, 1>>, <<1, 2>>, <<GammaNum, GammaDen>>, <<1, 1>>}

LearnTransitions ==
    {[state |-> GoodState(0), action |-> a, reward |-> r,
      next_state |-> GoodState(1), done |-> d] :
        a \in Actions, r \in LearnRewards, d \in BOOLEAN}

LearnBatches ==
    {MakeBatch(<<Experience(t, 1)>>) : t \in LearnTransitions}
        \cup {MakeBatch(<<Experience(t, 1), Experience(u, 2)>>) :
                  t \in {x \in LearnTransitions : x.done},
                  u \in {x \in LearnTransitions : ~x.done}}

InitLearn ==
    /\ UPDATE_EVERY = 1
    /\ BATCH_SIZE = 1
    /\ BUFFER_SIZE = 1
    /\ maxlen = 1
    /\ batch_size = 1
    /\ memory = <<>>
    /\ t_step = 0
    /\ \E s1 \in LearnSeeds, s2 \in LearnSeeds :
          /\ theta_local = InitParams(s1)
          /\ theta_target = InitParams(s2)
    /\ opt_steps = 0
    /\ training = TRUE
    /\ nAdded = 0
    /\ last = NoCall

LearnAction == \E b \in LearnBatches, g \in Gammas : Learn(b, g[1], g[2])

NextLearn == LearnAction

SpecLearn == InitLearn /\ [][NextLearn]_vars

\* Agent.soft_update called on its own, again and again
SoftValues == {0, 40, 1200}
Taus == {<<1, 2>>, <<TauNum, TauDen>>}

InitSoft ==
    /\ UPDATE_EVERY = 1
    /\ BATCH_SIZE = 1
    /\ BUFFER_SIZE = 1
    /\ maxlen = 1
    /\ batch_size = 1
    /\ memory = <<>>
    /\ t_step = 0
    /\ \E v \in SoftValues, w \in SoftValues :
          /\ theta_local = [a \in 1..ActionSize |-> v]
          /\ theta_target = [a \in 1..ActionSize |-> IF a = 1 THEN w ELSE v]
    /\ opt_steps = 0
    /\ training = TRUE
    /\ nAdded = 0
    /\ last = NoCall

SoftUpdateAction == \E tau \in Taus : SoftUpdateCall(tau[1], tau[2])

NextSoft == SoftUpdateAction

SpecSoft == InitSoft /\ [][NextSoft]_vars

\* ------------------------------------------------------------------ claims
\* the five fields of a stored record, as sample lays them out in a batch row
RowOf(e) == <<e.state, <<e.action>>, <<e.reward>>, e.next_state, <<BoolToFloat(e.done)>>>>

BatchRow(b, i) == <<b.states[i], b.actions[i], b.rewards[i], b.next_states[i], b.dones[i]>>

ContentOf(e) ==
    [state |-> e.state, action |-> e.action, reward |-> e.reward,
     next_state |-> e.next_state, done |-> e.done]

\* C1: a ReplayBuffer of capacity maxlen never holds more than maxlen
\* records; once maxlen records have been added it holds exactly maxlen, and
\* what it holds is the most recently added records in insertion order (the
\* record just added is the newest).
C1_CapacityFifo ==
    /\ Len(memory) <= maxlen
    /\ (nAdded >= maxlen => Len(memory) = maxlen)
    /\ \A i \in 1..Len(memory) : memory[i].id = nAdded - Len(memory) + i
    /\ (last.op = "add" /\ maxlen > 0 => ContentOf(memory[Len(memory)]) = last.t)

C1_Witness ==
    /\ last.op = "add"
    /\ maxlen >= 2
    /\ nAdded >= maxlen + 2

\* C2: a step call invokes learn if and only if the incremented t_step is 0
\* and the buffer, after the add, holds more than BATCH_SIZE records.
C2_LearnIffTrigger ==
    last.op = "step" =>
        (last.learnInvoked <=> (t_step = 0 /\ Len(memory) > BATCH_SIZE))

\* C3: no step call runs into random.sample's ValueError: whenever step
\* calls sample, the buffer holds at least batch_size records.
C3_NoInsufficientData ==
    last.op = "step" =>
        /\ last.err # "InsufficientData"
        /\ (last.sampleCalled => Len(memory) >= batch_size)

C3_Witness ==
    /\ last.op = "step"
    /\ last.sampleCalled
    /\ Len(memory) = batch_size + 1

\* C4: on a buffer holding at least batch_size records, sample returns
\* batch_size rows, drawn from distinct stored records, and row i of the five
\* arrays holds the fields of the i-th record drawn.
C4_SampleReturnsBatch ==
    (last.op = "sample" /\ Len(memory) >= batch_size) =>
        /\ last.err = "none"
        /\ \A f \in {"states", "actions", "rewards", "next_states", "dones"} :
              Len(last.batch[f]) = batch_size
        /\ \E idx \in InjSeqs(Len(memory), batch_size) :
              \A i \in 1..batch_size : BatchRow(last.batch, i) = RowOf(memory[idx[i]])

\* C5: sample leaves the deque as it was, and an add on a full buffer drops
\* the oldest record and no other, whatever was sampled before.
C5_SampleLeavesStore ==
    [][ /\ (last'.op = "sample" => memory' = memory)
        /\ (last'.op = "add" /\ maxlen > 0 /\ Len(memory) = maxlen =>
               /\ SubSeq(memory', 1, maxlen - 1) = Tail(memory)
               /\ \A i \in 1..Len(memory') : memory'[i].id > memory[1].id) ]_vars

C5_Witness ==
    /\ last.op = "sample"
    /\ last.err = "none"
    /\ Len(last.idx) >= 1
    /\ Len(memory) = maxlen
    /\ nAdded > maxlen

\* C6: sample on a buffer holding fewer than batch_size records raises, hands
\* out no batch and leaves the deque as it was.
C6_SampleTooLargeRaises ==
    [][ (last'.op = "sample" /\ batch_size > Len(memory)) =>
            /\ last'.err = "InsufficientData"
            /\ last'.batch = NoBatch
            /\ memory' = memory ]_vars

C6_Witness ==
    /\ last.op = "sample"
    /\ last.err = "InsufficientData"
    /\ Len(memory) >= 1

\* C7: a transition whose state or next_state has not state_size entries, or
\* whose action is not in [0, action_size), makes the step call that receives
\* it fail, and the buffer never holds such a record.
C7_MalformedRejected ==
    /\ (last.op = "step" /\ ~WellFormed(last.t) => last.err # "none")
    /\ \A i \in 1..Len(memory) : WellFormed(memory[i])

\* C8: act with eps = 0 returns the first maximal action of the online
\* network's output, whatever random.random() draws.
C8_GreedyAtZeroEps ==
    (last.op = "act" /\ last.err = "none" /\ last.actIn.eps = 0) =>
        last.ret = ArgMax(Forward(theta_local, last.actIn.state))

\* C9: when act has finished, by returning or by raising, the online network
\* is in training mode.
C9_TrainingRestored == last.op = "act" => training

\* C10: act changes neither network's parameters, nor the optimizer state,
\* nor the buffer, nor t_step.
C10_ActFrame ==
    [][ last'.op = "act" =>
            UNCHANGED <<theta_local, theta_target, opt_steps, memory, t_step>> ]_vars

C10_Witness ==
    /\ last.op = "act"
    /\ last.err = "none"
    /\ opt_steps > 0
    /\ theta_local # theta_target

\* C11: the target parameters change only by a soft update and the online
\* parameters only by an optimizer step; a step call whose guard holds makes
\* one optimizer step and then one soft update with TAU, and a step call
\* whose guard does not hold changes neither network.
C11_OneUpdatePerTrigger ==
    [][ /\ (theta_local' # theta_local => opt_steps' = opt_steps + 1)
        /\ (theta_target' # theta_target =>
               /\ opt_steps' = opt_steps + 1
               /\ theta_target' = SoftUpdate(theta_local', theta_target, TauNum, TauDen))
        /\ (last'.op = "step" /\ last'.sampleCalled =>
               /\ opt_steps' = opt_steps + 1
               /\ theta_target' = SoftUpdate(theta_local', theta_target, TauNum, TauDen))
        /\ (last'.op = "step" /\ ~last'.sampleCalled =>
               UNCHANGED <<theta_local, theta_target, opt_steps>>) ]_vars

\* C15: t_step is in 0..UPDATE_EVERY-1, is 0 at construction, equals the
\* number of step calls made so far modulo UPDATE_EVERY, and no call but step
\* changes it.
C15_StepCounter ==
    /\ t_step = 0
    /\ [](t_step \in 0..(UPDATE_EVERY - 1) /\ t_step = nAdded % UPDATE_EVERY)
    /\ [][t_step' # t_step => last'.op = "step"]_vars

C15_Witness ==
    /\ last.op = "act"
    /\ UPDATE_EVERY = MaxUpdateEvery
    /\ nAdded = UPDATE_EVERY + 1
    /\ t_step = 1

\* Another Agent of the same process (the same module globals), fed n
\* transitions of its own, all terminal, with no act call in between: its
\* buffer, its counter and whether its n-th step call met the guard of step.
OtherTransition ==
    [state |-> GoodState(1), action |-> 0, reward |-> 0,
     next_state |-> GoodState(1), done |-> TRUE]

OtherStep(p, id, ue, bs, cap) ==
    LET mem1 == BufferAdd(p.memory, OtherTransition, id, cap)
        ts1 == NextTStep(p.t_step, ue)
    IN [memory |-> mem1, t_step |-> ts1,
        trigger |-> ts1 = 0 /\ EnoughSamples(Len(mem1), bs)]

RECURSIVE OtherRun(_, _, _, _, _, _)
OtherRun(p, k, n, ue, bs, cap) ==
    IF k >= n \/ p.t_step < 0 THEN p
    ELSE OtherRun(OtherStep(p, k + 1, ue, bs, cap), k + 1, n, ue, bs, cap)

OtherAgent(n, ue, bs, cap) ==
    OtherRun([memory |-> <<>>, t_step |-> 0, trigger |-> FALSE], 0, n, ue, bs, cap)

Abs(x) == IF x < 0 THEN -x ELSE x

C14_RecordsImmutable ==
    [][last'.op = "write" => memory' = memory]_vars

====
